---------------------------- MODULE Spec2Model ----------------------------
(***************************************************************************)
(* Model of the aircraft lookup page script (src/unnamed/part_000, and its *)
(* older variant src/static/real_app.js, which is the same handler without *)
(* the contacts block).                                                    *)
(*                                                                         *)
(* The page holds one submit handler, an async function.  Each submit      *)
(* starts one run of the handler; a run is suspended at each await and     *)
(* other events (a further submit, the resumption of another run) are      *)
(* served meanwhile.  The model has one action per synchronous stretch of  *)
(* the handler: Submit (lines 77-99), PrimaryResponse (99-101),            *)
(* PrimaryJson (101-201, or to 230), ContactsResponse (201-203, or to      *)
(* 230) and ContactsJson (203-230).                                        *)
(*                                                                         *)
(* Notation: the em dash of the source is written "--", the middle dot     *)
(* " . "; markup is reduced to its text: a kv(...) block is the record of  *)
(* its label and its value, a badge is "[text]".                           *)
(***************************************************************************)
EXTENDS Integers, Sequences, FiniteSets, TLC

VARIABLES
    dom,          \* the elements the script writes: error box, results, spinner, sections
    inputValue,   \* input.value, a sequence of characters
    handlers,     \* the runs of the submit handler, by submit number
    lastRun,      \* how the run that returned last went
    net,          \* the requests each run has issued, by endpoint
    clock,        \* Date.now(), in milliseconds
    els           \* which of the four contacts elements the page holds

vars == <<dom, inputValue, handlers, lastRun, net, clock, els>>

\* How many submit events a behaviour holds.
MaxSubmits == 2

Sentinel == "--"
MidDot == " . "

---------------------------------------------------------------------------
(* JavaScript values, as far as the script distinguishes them. *)

Undefined == [t |-> "undefined"]
Null == [t |-> "null"]
Str(x) == [t |-> "string", s |-> x]
\* A number n/d; d = 1 for an integer.
Frac(k, m) == [t |-> "number", n |-> k, d |-> m]
Num(k) == Frac(k, 1)
Bool(b) == [t |-> "boolean", b |-> b]
Arr(items) == [t |-> "array", items |-> items]
Obj(f) == [t |-> "object", f |-> f]
EmptyObj == Obj(<<>>)
EmptyArr == Arr(<<>>)

IsNullish(v) == v.t \in {"undefined", "null"}

\* ToBoolean: what `!x`, `x || y`, `x ? a : b` and filter(Boolean) test.
Truthy(v) ==
    CASE v.t = "undefined" -> FALSE
      [] v.t = "null" -> FALSE
      [] v.t = "string" -> v.s # ""
      [] v.t = "number" -> v.n # 0
      [] v.t = "boolean" -> v.b
      [] OTHER -> TRUE

\* a || b
Or(a, b) == IF Truthy(a) THEN a ELSE b

\* o.k for an o that is not null or undefined (those throw, see the callers).
Get(o, k) == IF o.t = "object" /\ k \in DOMAIN o.f THEN o.f[k] ELSE Undefined

Digit(k) == <<"0", "1", "2", "3", "4", "5", "6", "7", "8", "9">>[k + 1]

RECURSIVE NatToStr(_)
NatToStr(k) == IF k < 10 THEN Digit(k) ELSE NatToStr(k \div 10) \o Digit(k % 10)

IntToStr(k) == IF k < 0 THEN "-" \o NatToStr(-k) ELSE NatToStr(k)

RECURSIVE Join(_, _)
\* The strings of a sequence with sep between them.
Join(strs, sep) ==
    IF strs = <<>> THEN ""
    ELSE IF Len(strs) = 1 THEN strs[1]
    ELSE strs[1] \o sep \o Join(Tail(strs), sep)

RECURSIVE ToStr(_)
\* ToString, as a template literal `${v}` applies it.  A non-integer number
\* is written as its fraction: the model's payloads hold one only where the
\* script rounds it first.
ToStr(v) ==
    CASE v.t = "undefined" -> "undefined"
      [] v.t = "null" -> "null"
      [] v.t = "string" -> v.s
      [] v.t = "number" ->
            IF v.d = 1 THEN IntToStr(v.n) ELSE IntToStr(v.n) \o "/" \o IntToStr(v.d)
      [] v.t = "boolean" -> IF v.b THEN "true" ELSE "false"
      [] v.t = "array" ->
            Join([i \in 1..Len(v.items) |->
                    IF IsNullish(v.items[i]) THEN "" ELSE ToStr(v.items[i])], ",")
      [] OTHER -> "[object Object]"

\* Array.prototype.join: null and undefined elements give the empty string.
JoinValues(items, sep) ==
    Join([i \in 1..Len(items) |->
            IF IsNullish(items[i]) THEN "" ELSE ToStr(items[i])], sep)

\* items.filter(Boolean)
FilterTruthy(items) == SelectSeq(items, Truthy)

\* Math.round(v * 100): to the nearest integer, halves upwards.
RoundTimes100(v) == (200 * v.n + v.d) \div (2 * v.d)

---------------------------------------------------------------------------
(* The helpers of the script. *)

kv(label, value) ==
    [label |-> label, value |-> IF Truthy(value) THEN ToStr(value) ELSE Sentinel]

pill(code, count) ==
    "[" \o (IF Truthy(code) THEN ToStr(code) ELSE Sentinel) \o " " \o ToStr(count) \o "]"

\* The plural for every count but 1.
PluralNotOne(k) == IF k # 1 THEN "s" ELSE ""

\* ${k>1?'s':''}
Plural(k) == IF k > 1 THEN "s" ELSE ""

\* formatAgo(epoch) at Date.now() = now.  epoch * 1000 and the division by
\* 1000 are over the integers here: the payloads of the model hold whole
\* seconds.
formatAgo(now, epoch) ==
    IF ~Truthy(epoch) THEN Sentinel
    ELSE
        LET diffMs == now - (epoch.n * 1000)
            fl == diffMs \div 1000
            s == IF fl > 0 THEN fl ELSE 0
            m == s \div 60
            h == m \div 60
            d == h \div 24
        IN  IF d >= 1 THEN IntToStr(d) \o " day" \o Plural(d) \o " ago"
            ELSE IF h >= 1 THEN IntToStr(h) \o " hr" \o Plural(h) \o " ago"
            ELSE IF m >= 1 THEN IntToStr(m) \o " min" \o Plural(m) \o " ago"
            ELSE IntToStr(s) \o " sec" \o Plural(s) \o " ago"

---------------------------------------------------------------------------
(* Rendering of the primary payload, lines 103-196. *)

\* (x || []) as the receiver of map, join or forEach: anything but an array
\* has no such method and the call throws a TypeError.
ArrOf(v) == Or(v, EmptyArr)
IsArr(v) == ArrOf(v).t = "array"
Items(v) == ArrOf(v).items
\* A callback that reads a property of its element throws on a null element.
HasNullish(items) == \E i \in 1..Len(items) : IsNullish(items[i])
MapThrows(v) == ~IsArr(v) \/ HasNullish(Items(v))

SourceLink(url, text) ==
    IF Truthy(url) THEN "Source: <a href=" \o ToStr(url) \o ">" \o text \o "</a>" ELSE ""

fr24CardOf(data) ==
    LET fr == Or(Get(data, "fr24"), EmptyObj)
    IN  << kv("Tail number", Str("<strong>" \o ToStr(Get(data, "tail_number")) \o "</strong>")),
           kv("Aircraft", Get(fr, "model")),
           kv("Airline", Get(fr, "airline")),
           kv("Operator", Get(fr, "operator")),
           kv("Type Code", Get(fr, "type_code")),
           kv("Code (Airline)", Get(fr, "airline_code")),
           kv("Code (Operator)", Get(fr, "operator_code")),
           kv("Mode S (ICAO hex)", Or(Get(fr, "mode_s"), Str(Sentinel))),
           kv("Serial Number (MSN)", Or(Get(fr, "serial_msn"), Str(Sentinel))) >>

fr24LinkOf(data) ==
    SourceLink(Get(Or(Get(data, "fr24"), EmptyObj), "source_url"), "FR24")

\* The flag by its truthiness.
FractionalOwnerByTruth(v) == IF Truthy(v) THEN "YES" ELSE "NO"

\* rg.fractional_owner === true ? 'YES' : (rg.fractional_owner === false ? 'NO' : '--')
FractionalOwner(v) ==
    IF v.t = "boolean" /\ v.b THEN "YES"
    ELSE IF v.t = "boolean" /\ ~v.b THEN "NO"
    ELSE Sentinel

regCardOf(data) ==
    LET rg == Or(Get(data, "registry"), EmptyObj)
    IN  << kv("Owner", Get(rg, "owner")),
           kv("Status", Get(rg, "status")),
           kv("Airworthiness Class", Get(rg, "airworthiness_class")),
           kv("Certificate Issue Date", Get(rg, "certificate_issue_date")),
           kv("Airworthiness Date", Get(rg, "airworthiness_date")),
           kv("Expiration", Get(rg, "expiration")),
           kv("Engine", Get(rg, "engine")),
           kv("Serial Number", Get(rg, "serial_number")),
           kv("Model Year", Get(rg, "model_year")),
           kv("Seats", Get(rg, "seats")),
           kv("Engines", Get(rg, "engines_count")),
           kv("Fractional Owner", Str(FractionalOwner(Get(rg, "fractional_owner")))) >>

regLinkOf(data) ==
    SourceLink(Get(Or(Get(data, "registry"), EmptyObj), "source_url"), "FAA / Registry")

\* [a, b].filter(Boolean).join(sep) || '--'
JoinPresent(a, b, sep) ==
    Or(Str(JoinValues(FilterTruthy(<<a, b>>), sep)), Str(Sentinel))

adsbCardOf(data, now) ==
    LET ad == Or(Get(data, "adsb"), EmptyObj)
    IN  << kv("Callsign", Get(ad, "callsign")),
           kv("ICAO hex", Get(ad, "hex")),
           kv("Registration", Or(Get(ad, "registration"), Get(data, "tail_number"))),
           kv("Type (ICAO / Full)", JoinPresent(Get(ad, "icao_type"), Get(ad, "type_full"), MidDot)),
           kv("Type Desc / Category", JoinPresent(Get(ad, "type_desc"), Get(ad, "category"), MidDot)),
           kv("Last seen (ADS-B)",
              IF Truthy(Get(ad, "pos_epoch"))
              THEN Str(formatAgo(now, Get(ad, "pos_epoch")) \o " (epoch)")
              ELSE Or(Get(ad, "last_seen"), Str(Sentinel))),
           kv("On-ground / Altitude", Or(Get(ad, "baro_altitude"), Str(Sentinel))),
           kv("Groundspeed (kt) / Track",
              JoinPresent(Get(ad, "groundspeed_kt"), Get(ad, "ground_track"), " / ")),
           kv("Heading (true/mag)",
              JoinPresent(Get(ad, "true_heading"), Get(ad, "mag_heading"), " / ")),
           kv("Squawk", Get(ad, "squawk")),
           kv("Position (WGS84)", Get(ad, "position")),
           kv("Source / Msg rate", JoinPresent(Get(ad, "source"), Get(ad, "message_rate"), MidDot)) >>

\* data.links?.adsb_globe_url
adsbLinkOf(data) ==
    LET links == Get(data, "links")
    IN  SourceLink(IF IsNullish(links) THEN Undefined ELSE Get(links, "adsb_globe_url"),
                   "ADS-B Exchange (globe)")

\* Whether lines 157-169 throw before targetCard is written.
targetThrows(data) ==
    LET chase == Or(Get(data, "chase"), Obj([score |-> Num(0), reasons |-> EmptyArr]))
    IN  \/ ~IsArr(Get(data, "buyer_roles_hint"))
        \/ MapThrows(Get(data, "overnights_top"))
        \/ ~IsArr(Get(chase, "reasons"))

\* The base with a percentage of 0 where no confidence is given.
LikelyBaseWithZero(data) ==
    LET base == Or(Get(data, "likely_base"), EmptyObj)
        conf == Get(base, "confidence")
        baseConf == IF conf.t = "number"
                    THEN " (conf " \o IntToStr(RoundTimes100(conf)) \o "%)"
                    ELSE " (conf 0%)"
    IN  IF Truthy(Get(base, "code")) THEN ToStr(Get(base, "code")) \o baseConf ELSE Sentinel

\* Lines 158-159 and 167.
LikelyBase(data) ==
    LET base == Or(Get(data, "likely_base"), EmptyObj)
        conf == Get(base, "confidence")
        baseConf == IF conf.t = "number"
                    THEN " (conf " \o IntToStr(RoundTimes100(conf)) \o "%)"
                    ELSE ""
    IN  IF Truthy(Get(base, "code")) THEN ToStr(Get(base, "code")) \o baseConf ELSE Sentinel

targetCardOf(data) ==
    LET hint == Items(Get(data, "buyer_roles_hint"))
        roles == Join([i \in 1..Len(hint) |-> "[" \o ToStr(hint[i]) \o "]"], "")
        top == Items(Get(data, "overnights_top"))
        ovn == Join([i \in 1..Len(top) |->
                        "[" \o ToStr(Or(Get(top[i], "airport"), Str(Sentinel))) \o " "
                            \o ToStr(Get(top[i], "overnights")) \o " ovn" \o MidDot
                            \o ToStr(Get(top[i], "avg_ground_hours")) \o "h avg]"], "")
        chase == Or(Get(data, "chase"), Obj([score |-> Num(0), reasons |-> EmptyArr]))
    IN  << kv("Inferred Operation",
              Str(ToStr(Or(Get(data, "inferred_operation"), Str(Sentinel)))
                  \o (IF Truthy(Get(data, "is_fractional")) THEN " (fractional)" ELSE ""))),
           kv("Who to contact", Or(Str(roles), Str(Sentinel))),
           kv("Likely operating base", Str(LikelyBase(data))),
           kv("Overnights / avg ground time", Or(Str(ovn), Str(Sentinel))),
           kv("Chase score",
              Str(ToStr(Get(chase, "score")) \o " / 5 -- "
                  \o JoinValues(Items(Get(chase, "reasons")), ", "))) >>

\* Whether lines 173-177 throw before activityCard is written.
activityThrows(data) ==
    \/ MapThrows(Get(data, "top_airports_7d"))
    \/ MapThrows(Get(data, "top_airports_30d"))
    \/ MapThrows(Get(data, "top_airports_90d"))

Pills(list) ==
    Join([i \in 1..Len(Items(list)) |->
            pill(Get(Items(list)[i], "code"), Get(Items(list)[i], "count"))], "")

activityCardOf(data, now) ==
    LET last == Or(Get(data, "last_spotted"), EmptyObj)
        placeLabel ==
            IF Truthy(Get(last, "place_code"))
            THEN IF Truthy(Get(last, "place_city"))
                 THEN ToStr(Get(last, "place_code")) \o " (" \o ToStr(Get(last, "place_city")) \o ")"
                 ELSE ToStr(Get(last, "place_code"))
            ELSE Sentinel
    IN  << kv("Last spotted (overall)",
              IF Truthy(Get(last, "epoch"))
              THEN Str(formatAgo(now, Get(last, "epoch")) \o " at " \o placeLabel)
              ELSE Str(Sentinel)),
           kv("Top airports -- last 7 days", Or(Str(Pills(Get(data, "top_airports_7d"))), Str(Sentinel))),
           kv("Top airports -- last 30 days", Or(Str(Pills(Get(data, "top_airports_30d"))), Str(Sentinel))),
           kv("Top airports -- last 90 days", Or(Str(Pills(Get(data, "top_airports_90d"))), Str(Sentinel))) >>

\* One <tr> of the flights table, lines 187-195.
FlightRow(f) ==
    [date_local |-> ToStr(Or(Get(f, "date_local"), Str(Sentinel))),
     from_airport |-> ToStr(Or(Get(f, "from_airport"), Str(Sentinel))),
     to_airport |-> ToStr(Or(Get(f, "to_airport"), Str(Sentinel))),
     callsign |-> ToStr(Or(Get(f, "callsign"), Str(Sentinel))),
     flight_time |-> ToStr(Or(Get(f, "flight_time"), Str(Sentinel)))]

RECURSIVE GoodPrefix(_)
\* The elements forEach serves before its callback throws on a null one.
GoodPrefix(items) ==
    IF items = <<>> \/ IsNullish(Head(items)) THEN <<>>
    ELSE <<Head(items)>> \o GoodPrefix(Tail(items))

flightsThrows(data) == MapThrows(Get(data, "recent_flights"))

\* The rows lines 186-196 append, up to the throw when there is one.
flightRowsOf(data) ==
    IF ~IsArr(Get(data, "recent_flights")) THEN <<>>
    ELSE LET good == GoodPrefix(Items(Get(data, "recent_flights")))
         IN  [i \in 1..Len(good) |-> FlightRow(good[i])]

---------------------------------------------------------------------------
(* Rendering of the contacts payload, lines 51-75 and 203-212. *)

\* One entry of a contact group, lines 59-72.
ContactEntry(c) ==
    LET phone == Or(Get(c, "corporate_phone"), Get(c, "phone"))
        pieces ==
            (IF Truthy(Get(c, "title")) THEN <<ToStr(Get(c, "title"))>> ELSE <<>>)
            \o (IF Truthy(Get(c, "email"))
                THEN <<"<a href=mailto:" \o ToStr(Get(c, "email")) \o ">"
                        \o ToStr(Get(c, "email")) \o "</a>">>
                ELSE <<>>)
            \o (IF Truthy(phone) THEN <<ToStr(phone)>> ELSE <<>>)
            \o (IF Truthy(Get(c, "company")) THEN <<ToStr(Get(c, "company"))>> ELSE <<>>)
        details == Join(pieces, MidDot)
    IN  [name |-> ToStr(Or(Get(c, "name"), Str(Sentinel))),
         details |-> IF details = "" THEN Sentinel ELSE details]

\* !list || list.length === 0
GroupIsEmpty(list) == ~Truthy(list) \/ (list.t = "array" /\ Len(list.items) = 0)

\* list.map(c => ... c.name ...) throws on a list that is no array and on a
\* null entry.
renderContactsGroupThrows(list) ==
    ~GroupIsEmpty(list) /\ (list.t # "array" \/ HasNullish(list.items))

\* An empty group left blank.
renderContactsGroupBlank(label, list) ==
    IF GroupIsEmpty(list) THEN <<>>
    ELSE << [header |-> label] >> \o [i \in 1..Len(list.items) |-> ContactEntry(list.items[i])]

\* What renderContactsGroup writes to its container (which the caller has
\* found to exist).
renderContactsGroup(label, list) ==
    IF GroupIsEmpty(list) THEN << kv(label, Str("No contacts found")) >>
    ELSE << [header |-> label] >> \o [i \in 1..Len(list.items) |-> ContactEntry(list.items[i])]

DomLabel == "Director of Maintenance / Maintenance"
OccLabel == "OCC / Dispatch"
OtherLabel == "Other relevant contacts"
ContactsNotAvailable == << kv("Contacts", Str("Contact lookup not available for this tail.")) >>
ContactsFailed == << kv("Contacts", Str("Contact lookup failed.")) >>

\* Lines 204-212 on the parsed body cdata, from the page d; the inner catch
\* (lines 217-222) when a line throws.
renderContacts(d, cdata) ==
    IF IsNullish(cdata) THEN [d EXCEPT !.domContacts = ContactsFailed]
    ELSE
        LET c == Or(Get(cdata, "contacts"), EmptyObj)
            airline == Or(Get(c, "airline"), Get(cdata, "airline"))
            d1 == IF Truthy(airline)
                  THEN [d EXCEPT !.contactsAirline =
                            "Airline: <strong>" \o ToStr(airline) \o "</strong>"]
                  ELSE d
            dom_ == Get(c, "dom")
            occ == Get(c, "occ")
            other == Get(c, "other")
        IN  IF renderContactsGroupThrows(dom_) \/ renderContactsGroupThrows(occ)
            THEN [d1 EXCEPT !.domContacts = ContactsFailed]
            ELSE IF renderContactsGroupThrows(other)
            THEN [d1 EXCEPT !.domContacts = ContactsFailed,
                            !.occContacts = renderContactsGroup(OccLabel, occ)]
            ELSE [d1 EXCEPT !.domContacts = renderContactsGroup(DomLabel, dom_),
                            !.occContacts = renderContactsGroup(OccLabel, occ),
                            !.otherContacts = renderContactsGroup(OtherLabel, other)]

---------------------------------------------------------------------------
(* The bodies the two endpoints answer with in the model. *)

PrimaryIds == {"full", "sparse", "null", "badRoles", "badFlight"}

FullPayload ==
    Obj([tail_number |-> Str("N123AB"),
         fr24 |-> Obj([model |-> Str("Gulfstream G650"), airline |-> Str("NetJets"),
                       type_code |-> Str("GLF6"), mode_s |-> Str("A0B1C2"),
                       source_url |-> Str("https://fr24/N123AB")]),
         registry |-> Obj([owner |-> Str("ACME LLC"), status |-> Str("Valid"),
                           model_year |-> Num(2015), seats |-> Num(12),
                           engines_count |-> Num(2), fractional_owner |-> Bool(TRUE),
                           source_url |-> Str("https://faa/N123AB")]),
         adsb |-> Obj([callsign |-> Str("EJA123"), hex |-> Str("a0b1c2"),
                       icao_type |-> Str("GLF6"), type_full |-> Str("Gulfstream G650"),
                       category |-> Str("A3"), pos_epoch |-> Num(1000),
                       groundspeed_kt |-> Num(450), squawk |-> Str("1200")]),
         links |-> Obj([adsb_globe_url |-> Str("https://globe/a0b1c2")]),
         inferred_operation |-> Str("Charter"),
         is_fractional |-> Bool(TRUE),
         buyer_roles_hint |-> Arr(<<Str("DOM"), Str("OCC")>>),
         likely_base |-> Obj([code |-> Str("TEB"), confidence |-> Frac(87, 100)]),
         overnights_top |-> Arr(<<Obj([airport |-> Str("TEB"), overnights |-> Num(3),
                                       avg_ground_hours |-> Num(12)])>>),
         chase |-> Obj([score |-> Num(4), reasons |-> Arr(<<Str("base"), Str("fleet")>>)]),
         last_spotted |-> Obj([epoch |-> Num(940), place_code |-> Str("TEB"),
                               place_city |-> Str("Teterboro")]),
         top_airports_7d |-> Arr(<<Obj([code |-> Str("TEB"), count |-> Num(2)])>>),
         top_airports_30d |-> Arr(<<Obj([code |-> Str("TEB"), count |-> Num(5)]),
                                    Obj([count |-> Num(1)])>>),
         recent_flights |-> Arr(<<Obj([date_local |-> Str("2024-05-01"),
                                       from_airport |-> Str("TEB"), to_airport |-> Str("PBI"),
                                       callsign |-> Str("EJA123"), flight_time |-> Str("2h 31m")]),
                                  Obj([from_airport |-> Str("PBI")])>>)])

\* Few fields, and among them a zero count, a false flag, an empty string
\* and a null.
SparsePayload ==
    Obj([tail_number |-> Str("N5"),
         registry |-> Obj([owner |-> Str(""), status |-> Null, seats |-> Num(0),
                           engines_count |-> Num(0), fractional_owner |-> Bool(FALSE)]),
         adsb |-> Obj([last_seen |-> Str("2 hours"), type_full |-> Str("Cessna 172")]),
         likely_base |-> Obj([code |-> Str("VNY")]),
         chase |-> Obj(<<>>),
         recent_flights |-> EmptyArr])

PrimaryPayload(id) ==
    CASE id = "full" -> FullPayload
      [] id = "sparse" -> SparsePayload
      [] id = "null" -> Null
      [] id = "badRoles" ->
            Obj([tail_number |-> Str("N7"), fr24 |-> Obj([model |-> Str("PC-12")]),
                 buyer_roles_hint |-> Str("DOM")])
      [] id = "badFlight" ->
            Obj([tail_number |-> Str("N9"),
                 recent_flights |-> Arr(<<Obj([callsign |-> Str("N9")]), Null,
                                          Obj([callsign |-> Str("N9X")])>>)])

ContactsIds == {"none", "empty", "full", "odd", "null", "badOther"}

ContactsPayload(id) ==
    CASE id = "none" -> EmptyObj
      [] id = "empty" -> Obj([contacts |-> Obj([dom |-> EmptyArr, occ |-> EmptyArr,
                                                other |-> EmptyArr])])
      [] id = "full" ->
            Obj([airline |-> Str("NetJets"),
                 contacts |-> Obj([
                    dom |-> Arr(<<Obj([name |-> Str("Ann"), title |-> Str("DOM"),
                                       email |-> Str("ann@x.io"), phone |-> Str("555-1"),
                                       corporate_phone |-> Str("555-9"),
                                       company |-> Str("NetJets")]),
                                  Obj([phone |-> Str("555-2")])>>),
                    occ |-> Arr(<<Obj([name |-> Str("Bob")])>>)])])
      [] id = "odd" -> Obj([contacts |-> Str("n/a"), airline |-> Num(0)])
      [] id = "null" -> Null
      [] id = "badOther" ->
            Obj([contacts |-> Obj([airline |-> Str("XO"),
                                   dom |-> Arr(<<Obj([name |-> Str("Cy")])>>),
                                   other |-> Str("n/a")])])

---------------------------------------------------------------------------
(* The page and the query. *)

API_BASE == "https://demo-flight.onrender.com"

EnterMsg == "Please enter an N-number."
LookupFailedMsg == "Lookup failed. Try again in a moment or verify the N-number."

ContactEls == {"contactsAirline", "domContacts", "occContacts", "otherContacts"}

\* What the user may have typed when a submit happens.
Inputs ==
    { <<>>, <<" ", "\t">>, <<"N", "1">>, <<" ", "N", " ", "2", " ">> }

IsSpace(c) == c \in {" ", "\t", "\n", "\r"}

RECURSIVE TrimStart(_)
TrimStart(cs) == IF cs # <<>> /\ IsSpace(Head(cs)) THEN TrimStart(Tail(cs)) ELSE cs

RECURSIVE TrimEnd(_)
TrimEnd(cs) ==
    IF cs # <<>> /\ IsSpace(cs[Len(cs)]) THEN TrimEnd(SubSeq(cs, 1, Len(cs) - 1)) ELSE cs

\* The input as typed, untrimmed.
NoTrim(cs) == cs

\* String.prototype.trim
Trim(cs) == TrimEnd(TrimStart(cs))

\* encodeURIComponent, on the characters the inputs of the model hold:
\* letters and digits stand, a space is escaped.
EncodeChar(c) ==
    CASE c = " " -> "%20"
      [] c = "\t" -> "%09"
      [] c = "\n" -> "%0A"
      [] c = "\r" -> "%0D"
      [] OTHER -> c

encodeURIComponent(cs) == Join([i \in 1..Len(cs) |-> EncodeChar(cs[i])], "")

\* The two requests, lines 99 and 201: the URL, and apart the value its n
\* parameter carries.
AircraftRequest(n) ==
    [url |-> API_BASE \o "/api/aircraft?n=" \o encodeURIComponent(n) \o "&use_adsb=true",
     n |-> encodeURIComponent(n)]
ContactsRequest(n) ==
    [url |-> API_BASE \o "/api/contacts-by-tail?n=" \o encodeURIComponent(n),
     n |-> encodeURIComponent(n)]

\* The page as loaded: nothing shown, every section empty.
InitDom ==
    [errHidden |-> TRUE, errText |-> "", resultsHidden |-> TRUE, spinner |-> "none",
     fr24Card |-> <<>>, regCard |-> <<>>, adsbCard |-> <<>>,
     targetCard |-> <<>>, activityCard |-> <<>>,
     fr24Link |-> "", regLink |-> "", adsbLink |-> "",
     flightsTable |-> <<>>,
     contactsAirline |-> "", domContacts |-> <<>>, occContacts |-> <<>>,
     otherContacts |-> <<>>]

showSpinner(d, show) == [d EXCEPT !.spinner = IF show THEN "inline-block" ELSE "none"]

setError(d, msg) ==
    IF msg = "" THEN [d EXCEPT !.errHidden = TRUE, !.errText = ""]
    ELSE [d EXCEPT !.errHidden = FALSE, !.errText = msg]

\* A reset that leaves the rows of the flights table in place.
ResetViewKeepingRows(d) ==
    [setError(d, "") EXCEPT
        !.resultsHidden = TRUE,
        !.fr24Card = <<>>, !.regCard = <<>>, !.adsbCard = <<>>,
        !.targetCard = <<>>, !.activityCard = <<>>,
        !.fr24Link = "", !.regLink = "", !.adsbLink = "",
        !.contactsAirline = IF "contactsAirline" \in els THEN "" ELSE @,
        !.domContacts = IF "domContacts" \in els THEN <<>> ELSE @,
        !.occContacts = IF "occContacts" \in els THEN <<>> ELSE @,
        !.otherContacts = IF "otherContacts" \in els THEN <<>> ELSE @]

\* Lines 79-90: the start of every run.
ResetView(d) ==
    [setError(d, "") EXCEPT
        !.resultsHidden = TRUE,
        !.fr24Card = <<>>, !.regCard = <<>>, !.adsbCard = <<>>,
        !.targetCard = <<>>, !.activityCard = <<>>,
        !.fr24Link = "", !.regLink = "", !.adsbLink = "",
        !.flightsTable = <<>>,
        !.contactsAirline = IF "contactsAirline" \in els THEN "" ELSE @,
        !.domContacts = IF "domContacts" \in els THEN <<>> ELSE @,
        !.occContacts = IF "occContacts" \in els THEN <<>> ELSE @,
        !.otherContacts = IF "otherContacts" \in els THEN <<>> ELSE @]

\* Whether lines 104-196 throw on the parsed body.
renderThrows(data) ==
    \/ IsNullish(data)
    \/ targetThrows(data)
    \/ activityThrows(data)
    \/ flightsThrows(data)

\* Lines 104-196 on the parsed body, as far as they get: each section is
\* written in turn and a throw leaves the later ones as they were.
renderPrimary(d, data, now) ==
    IF IsNullish(data) THEN d
    ELSE
        LET d3 == [d EXCEPT !.fr24Card = fr24CardOf(data), !.fr24Link = fr24LinkOf(data),
                            !.regCard = regCardOf(data), !.regLink = regLinkOf(data),
                            !.adsbCard = adsbCardOf(data, now), !.adsbLink = adsbLinkOf(data)]
        IN  IF targetThrows(data) THEN d3
            ELSE LET d4 == [d3 EXCEPT !.targetCard = targetCardOf(data)]
                 IN  IF activityThrows(data) THEN d4
                     ELSE [d4 EXCEPT !.activityCard = activityCardOf(data, now),
                                     !.flightsTable = @ \o flightRowsOf(data)]

\* The text of the caught error itself.
CatchMessageRaw(err) == err

\* The message the outer catch (lines 225-227) shows for the error it caught.
CatchMessage(err) == LookupFailedMsg

\* The outer catch without the finally.
catchOnly(d, err) == setError(d, CatchMessage(err))

\* Lines 225-230: the outer catch and the finally.
catchAndFinally(d, err) == showSpinner(setError(d, CatchMessage(err)), FALSE)

\* The finally alone: the results stay hidden.
finallyOnly(d) == showSpinner(d, FALSE)

\* Lines 224 and 228-230: the results are shown, and the finally.
showResults(d) == showSpinner([d EXCEPT !.resultsHidden = FALSE], FALSE)

---------------------------------------------------------------------------
(* The runs of the submit handler. *)

Ids == 1..MaxSubmits

\* Date.now() at two moments of the session.
Clocks == {1000000, 8200000}

\* The status codes the endpoints answer with in the model.
Statuses == {200, 500}

\* res.ok
IsOk(status) == 200 <= status /\ status <= 299

\* What an awaited fetch resumes with: a rejection, or a response.
Responses == {[rejected |-> TRUE, status |-> 0]}
             \cup {[rejected |-> FALSE, status |-> st] : st \in Statuses}

\* The pages the script may be loaded in: with the four contacts elements
\* (the page of part_000), with none of them (the page of real_app.js), and
\* with only some.
Pages == {ContactEls, {}, {"domContacts", "occContacts"}}

\* A run that has not begun.  pc is the await the run is suspended at, or how
\* it returned: "invalid" (line 95), "failed" (the outer catch), "ready"
\* (line 224).  n and data are the handler's constants of those names (data
\* by the name of the body, with the clock its rendering read); a run that
\* has returned holds them no more.
NoRun == [pc |-> "unsubmitted", n |-> <<>>, data |-> "none", at |-> 0]

Returned(pc) == [NoRun EXCEPT !.pc = pc]

NoRequests == [aircraft |-> <<>>, contacts |-> <<>>]

\* Nothing has returned yet.
NoLast ==
    [h |-> 0, outcome |-> "none", cause |-> "none", err |-> "", n |-> <<>>,
     data |-> "none", at |-> 0, contacts |-> "none", cdata |-> "none"]

Submitted == {h \in Ids : handlers[h].pc # "unsubmitted"}
InFlight == {h \in Ids : handlers[h].pc \in {"fetch", "json", "cfetch", "cjson"}}
Quiescent == InFlight = {}

Init ==
    /\ dom = InitDom
    /\ inputValue = <<>>
    /\ handlers = [h \in Ids |-> NoRun]
    /\ lastRun = NoLast
    /\ net = [h \in Ids |-> NoRequests]
    /\ clock = 1000000
    /\ els \in Pages

\* The user edits the input field.
TypeInput(v) ==
    /\ v # inputValue
    /\ inputValue' = v
    /\ UNCHANGED <<dom, handlers, lastRun, net, clock, els>>

\* Time passes.
Tick ==
    /\ \E t \in Clocks : t > clock /\ clock' = t
    /\ UNCHANGED <<dom, inputValue, handlers, lastRun, net, els>>

\* Lines 77-99: a submit event, up to the first await.
Submit ==
    /\ Cardinality(Submitted) < MaxSubmits
    /\ LET h == Cardinality(Submitted) + 1
           d == showSpinner(ResetView(dom), TRUE)
           n == Trim(inputValue)
       IN  IF n = <<>>
           THEN /\ dom' = showSpinner(setError(d, EnterMsg), FALSE)
                /\ handlers' = [handlers EXCEPT ![h] = Returned("invalid")]
                /\ lastRun' = [NoLast EXCEPT !.h = h, !.outcome = "invalid"]
                /\ net' = net
           ELSE /\ dom' = d
                /\ handlers' = [handlers EXCEPT ![h] = [NoRun EXCEPT !.pc = "fetch", !.n = n]]
                /\ lastRun' = lastRun
                /\ net' = [net EXCEPT ![h].aircraft = Append(@, AircraftRequest(n))]
    /\ UNCHANGED <<inputValue, clock, els>>

\* The run h ends in the outer catch, from the page d.
Fail(h, d, cause, err, body) ==
    /\ dom' = catchAndFinally(d, err)
    /\ handlers' = [handlers EXCEPT ![h] = Returned("failed")]
    /\ lastRun' = [NoLast EXCEPT !.h = h, !.outcome = "failed", !.cause = cause, !.err = err,
                              !.n = handlers[h].n, !.data = body,
                              !.at = IF body = "none" THEN 0 ELSE clock]
    /\ net' = net

\* Lines 99-101: the primary fetch settles.
PrimaryResponse(h, r) ==
    /\ handlers[h].pc = "fetch"
    /\ IF r.rejected THEN Fail(h, dom, "transport", "Failed to fetch", "none")
       ELSE IF ~IsOk(r.status)
       THEN Fail(h, dom, "status", "HTTP " \o IntToStr(r.status), "none")
       ELSE /\ handlers' = [handlers EXCEPT ![h].pc = "json"]
            /\ UNCHANGED <<dom, lastRun, net>>
    /\ UNCHANGED <<inputValue, clock, els>>

\* The contacts block is entered with all four elements on the page (line 200).
HasContactsSection == ContactEls \subseteq els

\* The key read anew from the input field.
ContactsKeyFromInput(h) == Trim(inputValue)

\* The key the contacts request of run h carries (line 201).
ContactsKey(h) == handlers[h].n

\* Lines 101-201: the primary body is read; the sections are rendered; the
\* contacts request is issued, or (to line 230) the run ends.
PrimaryJson(h, body) ==
    /\ handlers[h].pc = "json"
    /\ IF body = "unparseable" THEN Fail(h, dom, "parse", "Unexpected token", "none")
       ELSE LET data == PrimaryPayload(body)
                d == renderPrimary(dom, data, clock)
            IN  IF renderThrows(data)
                THEN Fail(h, d, "render", "TypeError", body)
                ELSE IF HasContactsSection
                THEN /\ dom' = d
                     /\ handlers' = [handlers EXCEPT ![h].pc = "cfetch", ![h].data = body,
                                                     ![h].at = clock]
                     /\ lastRun' = lastRun
                     /\ net' = [net EXCEPT ![h].contacts =
                                    Append(@, ContactsRequest(ContactsKey(h)))]
                ELSE /\ dom' = showResults(d)
                     /\ handlers' = [handlers EXCEPT ![h] = Returned("ready")]
                     /\ lastRun' = [NoLast EXCEPT !.h = h, !.outcome = "ready",
                                    !.n = handlers[h].n, !.data = body, !.at = clock,
                                    !.contacts = "skipped"]
                     /\ net' = net
    /\ UNCHANGED <<inputValue, clock, els>>

\* Whether lines 204-212 throw on the parsed body (into the inner catch).
contactsThrows(cdata) ==
    \/ IsNullish(cdata)
    \/ LET c == Or(Get(cdata, "contacts"), EmptyObj)
       IN  \/ renderContactsGroupThrows(Get(c, "dom"))
           \/ renderContactsGroupThrows(Get(c, "occ"))
           \/ renderContactsGroupThrows(Get(c, "other"))

\* The run h ends at line 224 and the finally, from the page d.
Finish(h, d, how, body) ==
    /\ dom' = showResults(d)
    /\ handlers' = [handlers EXCEPT ![h] = Returned("ready")]
    /\ lastRun' = [NoLast EXCEPT !.h = h, !.outcome = "ready", !.n = handlers[h].n,
                              !.data = handlers[h].data, !.at = handlers[h].at,
                              !.contacts = how, !.cdata = body]
    /\ net' = net

\* A contacts status that is not ok, reported as a failed lookup.
contactsNotOkAsError(d) ==
    setError([d EXCEPT !.domContacts = ContactsNotAvailable], LookupFailedMsg)

\* Line 214: the contacts endpoint answered with a status that is not ok.
contactsNotOk(d) == [d EXCEPT !.domContacts = ContactsNotAvailable]

\* A contacts error reported as a failed lookup.
contactsCatchAsError(d) == setError(d, LookupFailedMsg)

\* Lines 217-222: the inner catch.
contactsCatch(d) == [d EXCEPT !.domContacts = ContactsFailed]

\* Lines 201-203: the contacts fetch settles.  A rejection goes to the inner
\* catch, a status that is not ok to line 214; both then run to the end of
\* the handler.
ContactsResponse(h, r) ==
    /\ handlers[h].pc = "cfetch"
    /\ IF r.rejected THEN Finish(h, contactsCatch(dom), "transport", "none")
       ELSE IF ~IsOk(r.status) THEN Finish(h, contactsNotOk(dom), "status", "none")
       ELSE /\ handlers' = [handlers EXCEPT ![h].pc = "cjson"]
            /\ UNCHANGED <<dom, lastRun, net>>
    /\ UNCHANGED <<inputValue, clock, els>>

\* Lines 203-230: the contacts body is read and rendered, and the run ends.
ContactsJson(h, body) ==
    /\ handlers[h].pc = "cjson"
    /\ IF body = "unparseable" THEN Finish(h, contactsCatch(dom), "parse", "none")
       ELSE Finish(h, renderContacts(dom, ContactsPayload(body)),
                   IF contactsThrows(ContactsPayload(body)) THEN "malformed" ELSE "ok", body)
    /\ UNCHANGED <<inputValue, clock, els>>

Respond ==
    \/ \E h \in Ids, r \in Responses : PrimaryResponse(h, r)
    \/ \E h \in Ids, body \in PrimaryIds \cup {"unparseable"} : PrimaryJson(h, body)
    \/ \E h \in Ids, r \in Responses : ContactsResponse(h, r)
    \/ \E h \in Ids, body \in ContactsIds \cup {"unparseable"} : ContactsJson(h, body)

Environment ==
    \/ \E v \in Inputs : TypeInput(v)
    \/ Tick

\* Submits at any moment, also while earlier runs are suspended.
Next == Submit \/ Respond \/ Environment

Spec == Init /\ [][Next]_vars

\* Every awaited promise settles: a run suspended at an await of lines 99,
\* 101, 201 or 203 is resumed in the end.
Fairness ==
    \A h \in Ids :
        /\ WF_vars(\E r \in Responses : PrimaryResponse(h, r))
        /\ WF_vars(\E body \in PrimaryIds \cup {"unparseable"} : PrimaryJson(h, body))
        /\ WF_vars(\E r \in Responses : ContactsResponse(h, r))
        /\ WF_vars(\E body \in ContactsIds \cup {"unparseable"} : ContactsJson(h, body))

SpecLive == Spec /\ Fairness

\* One query at a time: a submit only when every earlier run has returned.
SubmitWhenIdle == Quiescent /\ Submit

NextSeq == SubmitWhenIdle \/ Respond \/ Environment

SpecSeq == Init /\ [][NextSeq]_vars

---------------------------------------------------------------------------
(* A page without the contacts elements (the sections real_app.js renders  *)
(* too) and its first query, with the primary endpoint answering from      *)
(* families of bodies that vary one group of fields each.                  *)

\* The values a field of a body takes.
FieldValues ==
    {Undefined, Null, Str(""), Str("x"), Num(0), Num(4), Bool(FALSE), Bool(TRUE)}

\* Date.now() at two moments within one second of each other.
FieldClocks == {200000000, 200000999}

\* The seconds between an epoch of a body and the first of FieldClocks; a
\* negative one is an epoch in the future.
Elapsed ==
    {-5, 0, 1, 2, 59, 60, 61, 119, 120, 3599, 3600, 7199, 7200, 86399, 86400,
     172799, 172800}

EpochValues == {Undefined, Null, Num(0)} \cup {Num(200000 - k) : k \in Elapsed}

\* The fields shown through kv and through the || chains.
KvPayloads ==
    {Obj([kind |-> Str("kv"), tail_number |-> w,
          fr24 |-> Obj([model |-> v, mode_s |-> v]),
          registry |-> Obj([owner |-> v, model_year |-> v, seats |-> v,
                            engines_count |-> v]),
          adsb |-> Obj([registration |-> v, squawk |-> v, baro_altitude |-> v])]) :
        v \in FieldValues, w \in FieldValues}

\* registry.fractional_owner, with the registry record missing too.
OwnerPayloads ==
    {Obj([kind |-> Str("owner"), tail_number |-> Str("N1"),
          registry |-> Obj([fractional_owner |-> v])]) :
        v \in FieldValues \cup {Str("true"), Num(1)}}
    \cup {Obj([kind |-> Str("owner"), tail_number |-> Str("N1")]),
          Obj([kind |-> Str("owner"), tail_number |-> Str("N1"), registry |-> Null]),
          Obj([kind |-> Str("owner"), tail_number |-> Str("N1"), registry |-> EmptyObj])}

BaseCodes == {Undefined, Null, Str(""), Str("TEB")}
Confidences ==
    {Undefined, Null, Str("0.87"), Num(0), Num(1), Frac(87, 100), Frac(1, 2), Frac(7, 8)}

\* likely_base, with the record missing too.
BasePayloads ==
    {Obj([kind |-> Str("base"), tail_number |-> Str("N1"),
          likely_base |-> Obj([code |-> c, confidence |-> f])]) :
        c \in BaseCodes, f \in Confidences}
    \cup {Obj([kind |-> Str("base"), tail_number |-> Str("N1")]),
          Obj([kind |-> Str("base"), tail_number |-> Str("N1"), likely_base |-> Null]),
          Obj([kind |-> Str("base"), tail_number |-> Str("N1"),
               likely_base |-> Obj([code |-> Str("TEB")])])}

\* The two epochs formatAgo is applied to.
AgoPayloads ==
    {Obj([kind |-> Str("ago"), tail_number |-> Str("N1"),
          adsb |-> Obj([pos_epoch |-> e]),
          last_spotted |-> Obj([epoch |-> e, place_code |-> Str("TEB")])]) :
        e \in EpochValues}

FieldPayloads == KvPayloads \cup OwnerPayloads \cup BasePayloads \cup AgoPayloads

InitFields ==
    /\ dom = InitDom
    /\ inputValue = <<>>
    /\ handlers = [h \in Ids |-> NoRun]
    /\ lastRun = NoLast
    /\ net = [h \in Ids |-> NoRequests]
    /\ clock = 200000000
    /\ els = {}

TickFields ==
    /\ \E t \in FieldClocks : t > clock /\ clock' = t
    /\ UNCHANGED <<dom, inputValue, handlers, lastRun, net, els>>

\* Lines 101-196 and 224-230 on a page without the contacts elements: the
\* body parses to data, the sections are rendered and the run ends.  The
\* record of the run holds the body itself.
PrimaryJsonData(h, data) ==
    /\ handlers[h].pc = "json"
    /\ ~HasContactsSection
    /\ LET d == renderPrimary(dom, data, clock)
       IN  IF renderThrows(data)
           THEN /\ dom' = catchAndFinally(d, "TypeError")
                /\ handlers' = [handlers EXCEPT ![h] = Returned("failed")]
                /\ lastRun' = [NoLast EXCEPT !.h = h, !.outcome = "failed",
                               !.cause = "render", !.err = "TypeError",
                               !.n = handlers[h].n, !.data = data, !.at = clock]
           ELSE /\ dom' = showResults(d)
                /\ handlers' = [handlers EXCEPT ![h] = Returned("ready")]
                /\ lastRun' = [NoLast EXCEPT !.h = h, !.outcome = "ready",
                               !.n = handlers[h].n, !.data = data, !.at = clock,
                               !.contacts = "skipped"]
    /\ net' = net
    /\ UNCHANGED <<inputValue, clock, els>>

RespondFields ==
    \/ \E h \in Ids, r \in Responses : PrimaryResponse(h, r)
    \/ \E h \in Ids, data \in FieldPayloads : PrimaryJsonData(h, data)

EnvironmentFields ==
    \/ \E v \in Inputs : TypeInput(v)
    \/ TickFields

\* The first query of the page.
SubmitFirst == Submitted = {} /\ Submit

NextFields == SubmitFirst \/ RespondFields \/ EnvironmentFields

SpecFields == InitFields /\ [][NextFields]_vars

---------------------------------------------------------------------------
(* What the claims observe of the page. *)

\* The outputs rendered from the primary payload.
PrimarySections(d) ==
    <<d.fr24Card, d.regCard, d.adsbCard, d.targetCard, d.activityCard,
      d.fr24Link, d.regLink, d.adsbLink, d.flightsTable>>

\* The outputs of the contacts block.
ContactsSections(d) ==
    <<d.contactsAirline, d.domContacts, d.occContacts, d.otherContacts>>

\* Everything a user sees but the busy indicator.
View(d) == <<PrimarySections(d), ContactsSections(d), d.resultsHidden, d.errHidden, d.errText>>

AllSectionsEmpty(d) ==
    /\ PrimarySections(d) = <<<<>>, <<>>, <<>>, <<>>, <<>>, "", "", "", <<>>>>
    /\ ContactsSections(d) = <<"", <<>>, <<>>, <<>>>>

ErrorShown(d) == ~d.errHidden
ResultsShown(d) == ~d.resultsHidden

\* A query that trimming leaves empty, said without Trim.
IsBlank(cs) == \A i \in 1..Len(cs) : IsSpace(cs[i])

\* The step is the submit of run h.
IsSubmitOf(h) == handlers[h].pc = "unsubmitted" /\ handlers'[h].pc # "unsubmitted"

\* The step resumes run h, which was suspended at an await.
IsResumeOf(h) == h \in InFlight /\ handlers'[h] # handlers[h]

\* A later query than h has been submitted.
Superseded(h) == h < Cardinality(Submitted)

Labels(card) == [i \in 1..Len(card) |-> card[i].label]

\* The labels of the five cards, lines 105-183.
Fr24Labels ==
    <<"Tail number", "Aircraft", "Airline", "Operator", "Type Code", "Code (Airline)",
      "Code (Operator)", "Mode S (ICAO hex)", "Serial Number (MSN)">>
RegLabels ==
    <<"Owner", "Status", "Airworthiness Class", "Certificate Issue Date",
      "Airworthiness Date", "Expiration", "Engine", "Serial Number", "Model Year",
      "Seats", "Engines", "Fractional Owner">>
AdsbLabels ==
    <<"Callsign", "ICAO hex", "Registration", "Type (ICAO / Full)", "Type Desc / Category",
      "Last seen (ADS-B)", "On-ground / Altitude", "Groundspeed (kt) / Track",
      "Heading (true/mag)", "Squawk", "Position (WGS84)", "Source / Msg rate">>
TargetLabels ==
    <<"Inferred Operation", "Who to contact", "Likely operating base",
      "Overnights / avg ground time", "Chase score">>
ActivityLabels ==
    <<"Last spotted (overall)", "Top airports -- last 7 days",
      "Top airports -- last 30 days", "Top airports -- last 90 days">>

\* The card holds exactly these labels, each with a value.
Complete(card, labels) ==
    /\ Labels(card) = labels
    /\ \A i \in 1..Len(card) : card[i].value # ""

\* The page a run on its own leaves when it has rendered the body, read the
\* clock at `at`, and the contacts block has gone by `how` with body cdata.
RunView(body, at, how, cdata) ==
    LET d == renderPrimary(showSpinner(ResetView(InitDom), TRUE), PrimaryPayload(body), at)
    IN  showResults(
            CASE how \in {"transport", "parse"} -> contactsCatch(d)
              [] how = "status" -> contactsNotOk(d)
              [] how \in {"ok", "malformed"} -> renderContacts(d, ContactsPayload(cdata))
              [] OTHER -> d)

---------------------------------------------------------------------------
(* C1.  A submit whose query is empty or only whitespace issues no request, *)
(* neither then nor later; when its handler returns the error box shows    *)
(* exactly "Please enter an N-number.", the results are hidden and the     *)
(* busy indicator is off.                                                  *)
C1_BlankQueryRejected ==
    /\ [][\A h \in Ids :
            (IsSubmitOf(h) /\ IsBlank(inputValue)) =>
                /\ handlers'[h].pc = "invalid"
                /\ net'[h] = NoRequests
                /\ ErrorShown(dom') /\ dom'.errText = EnterMsg
                /\ ~ResultsShown(dom')
                /\ dom'.spinner = "none"]_vars
    /\ [](\A h \in Ids : handlers[h].pc = "invalid" => net[h] = NoRequests)

\* A whitespace-only query has just been rejected while an earlier run is
\* still suspended.
C1_Witness ==
    /\ inputValue = <<" ", "\t">>
    /\ lastRun.outcome = "invalid" /\ lastRun.h = 2
    /\ handlers[1].pc = "fetch"
    /\ dom.errText = EnterMsg

(* C2.  One query at a time: when the primary request ends with a status   *)
(* that is not ok, a transport error or a body that does not parse, the    *)
(* run ends failed, the error box shows the generic message and not the    *)
(* error's own text, the results are hidden, every section is empty and no *)
(* contacts request was issued.                                            *)
C2_PrimaryFailureIsFatal ==
    (Quiescent /\ lastRun.outcome = "failed"
        /\ lastRun.cause \in {"status", "transport", "parse"}) =>
        /\ handlers[lastRun.h].pc = "failed"
        /\ ErrorShown(dom) /\ dom.errText = LookupFailedMsg
        /\ dom.errText # lastRun.err
        /\ ~ResultsShown(dom)
        /\ AllSectionsEmpty(dom)
        /\ net[lastRun.h].contacts = <<>>
        /\ dom.spinner = "none"

\* The second query failed on its status after the first one had shown
\* its results.
C2_Witness ==
    /\ Quiescent
    /\ handlers[1].pc = "ready"
    /\ lastRun.h = 2 /\ lastRun.cause = "status" /\ lastRun.err = "HTTP 500"

(* C3.  One query at a time: when the primary request succeeded and the    *)
(* contacts request fails (rejected, status not ok, body that does not     *)
(* parse or is malformed), the run ends ready: results shown, error box    *)
(* empty and hidden, the sections of the primary payload exactly as        *)
(* rendered from it, and the unavailable message in the contacts section.  *)
C3_ContactsFailureIsolated ==
    (Quiescent /\ lastRun.outcome = "ready"
        /\ lastRun.contacts \in {"transport", "status", "parse", "malformed"}) =>
        /\ handlers[lastRun.h].pc = "ready"
        /\ ResultsShown(dom)
        /\ ~ErrorShown(dom) /\ dom.errText = ""
        /\ PrimarySections(dom) =
               PrimarySections(renderPrimary(InitDom, PrimaryPayload(lastRun.data), lastRun.at))
        /\ dom.fr24Card # <<>> /\ dom.regCard # <<>> /\ dom.adsbCard # <<>>
        /\ dom.targetCard # <<>> /\ dom.activityCard # <<>>
        /\ dom.domContacts \in {ContactsFailed, ContactsNotAvailable}

\* The second query's contacts request was rejected, after a first query
\* that had left flight rows of its own.
C3_Witness ==
    /\ Quiescent
    /\ handlers[1].pc = "ready"
    /\ lastRun.h = 2 /\ lastRun.outcome = "ready" /\ lastRun.contacts = "transport"
    /\ lastRun.data = "full"
    /\ Len(dom.flightsTable) = 2

(* C4.  The error box and the results are never both shown, whatever the   *)
(* order of submits and responses.                                         *)
C4_ErrorAndResultsExclusive == ~(ErrorShown(dom) /\ ResultsShown(dom))

(* C5.  Once a newer query has been submitted, no resumption of an earlier *)
(* run (primary or contacts, success or failure) changes the sections, the *)
(* visibility of the results or the error box.                             *)
C5_StaleResponseIgnored ==
    [][\A h \in Ids : (IsResumeOf(h) /\ Superseded(h)) => View(dom') = View(dom)]_vars

(* C6.  Every submit, valid or not, leaves the results hidden, all         *)
(* sections empty and the error box clear but for its own validation       *)
(* message; and while a run awaits its own primary response all sections   *)
(* are empty.                                                              *)
C6_ResetHoldsWhileInFlight ==
    [][/\ \A h \in Ids :
            IsSubmitOf(h) =>
                /\ ~ResultsShown(dom')
                /\ AllSectionsEmpty(dom')
                /\ \/ ~ErrorShown(dom') /\ dom'.errText = ""
                   \/ IsBlank(inputValue) /\ dom'.errText = EnterMsg
       /\ \A h \in Ids : handlers'[h].pc = "fetch" => AllSectionsEmpty(dom')]_vars

(* C7.  The request of a run carries the trimmed input of its submit; its  *)
(* contacts request is issued at most once, only in the step that read and *)
(* rendered the run's primary body after a success status, and carries the *)
(* key the primary request carried, whatever the input field holds then    *)
(* and whatever was submitted meanwhile.                                   *)
C7_ContactsAfterPrimarySameKey ==
    /\ [](\A h \in Ids :
            /\ Len(net[h].aircraft) <= 1 /\ Len(net[h].contacts) <= 1
            /\ net[h].contacts # <<>> =>
                /\ handlers[h].pc \in {"cfetch", "cjson", "ready"}
                /\ Len(net[h].aircraft) = 1
                /\ net[h].contacts[1].n = net[h].aircraft[1].n)
    /\ [][\A h \in Ids :
            /\ (IsSubmitOf(h) /\ ~IsBlank(inputValue)) =>
                    net'[h].aircraft = <<AircraftRequest(Trim(inputValue))>>
            /\ net'[h].contacts # net[h].contacts =>
                /\ handlers[h].pc = "json" /\ handlers'[h].pc = "cfetch"
                /\ net'[h].contacts = <<ContactsRequest(handlers[h].n)>>
                /\ handlers'[h].data \in PrimaryIds
                /\ ~renderThrows(PrimaryPayload(handlers'[h].data))
                /\ dom'.fr24Card = fr24CardOf(PrimaryPayload(handlers'[h].data))
                /\ dom'.regCard = regCardOf(PrimaryPayload(handlers'[h].data))
                /\ dom'.adsbCard = adsbCardOf(PrimaryPayload(handlers'[h].data), clock)
                /\ dom'.targetCard = targetCardOf(PrimaryPayload(handlers'[h].data))
                /\ dom'.activityCard = activityCardOf(PrimaryPayload(handlers'[h].data), clock)]_vars

\* The first run has issued its contacts request, with the key it was
\* submitted with, after the field was emptied and a second query with
\* another key was submitted.
C7_Witness ==
    /\ handlers[1].pc = "cfetch"
    /\ net[1].contacts # <<>> /\ net[1].contacts[1].n = "N%202"
    /\ net[2].aircraft # <<>> /\ net[2].aircraft[1].n = "N1"
    /\ inputValue = <<>>

(* C8.  Whenever a run is suspended at a network call the busy indicator   *)
(* is shown, and while it stays suspended nothing of the view changes.     *)
C8_BusyAndStillWhileSuspended ==
    [][/\ InFlight' # {} => dom'.spinner = "inline-block"
       /\ \A h \in Ids :
            (h \in InFlight /\ handlers'[h] = handlers[h]) => View(dom') = View(dom)]_vars

(* C9.  For the same query, primary body and clock, the run whose contacts *)
(* request is answered 500 and the run whose contacts request is answered  *)
(* with an empty contacts payload end with the same view outside the       *)
(* contacts section (sections, results shown, error box); the contacts     *)
(* section reads "not available" in the first and "No contacts found" in   *)
(* the second.  Said of every run that ends in one of the two ways: its    *)
(* page is the one RunView gives for its inputs, and the page RunView      *)
(* gives for the same inputs with the other answer relates to it as said.  *)
C9_ContactsOutcomeIsolation ==
    (Quiescent /\ lastRun.outcome = "ready"
        /\ \/ lastRun.contacts = "status"
           \/ lastRun.contacts = "ok" /\ lastRun.cdata \in {"none", "empty"}) =>
        LET a == RunView(lastRun.data, lastRun.at, "status", "none")
            b == RunView(lastRun.data, lastRun.at, "ok", "empty")
        IN  /\ dom = IF lastRun.contacts = "status" THEN a
                     ELSE RunView(lastRun.data, lastRun.at, "ok", lastRun.cdata)
            /\ PrimarySections(a) = PrimarySections(b)
            /\ PrimarySections(a) =
                   PrimarySections(renderPrimary(InitDom, PrimaryPayload(lastRun.data),
                                                 lastRun.at))
            /\ ResultsShown(a) /\ ResultsShown(b)
            /\ ~ErrorShown(a) /\ ~ErrorShown(b)
            /\ a.errText = "" /\ b.errText = ""
            /\ a.spinner = b.spinner
            /\ ContactsSections(a) = <<"", ContactsNotAvailable, <<>>, <<>>>>
            /\ ContactsSections(b) =
                   <<"", <<kv(DomLabel, Str("No contacts found"))>>,
                     <<kv(OccLabel, Str("No contacts found"))>>,
                     <<kv(OtherLabel, Str("No contacts found"))>>>>

\* A first query ended on a 500 of the contacts endpoint and a second one,
\* for the same key and body, on an empty contacts payload.
C9_Witness ==
    /\ Quiescent
    /\ handlers[1].pc = "ready" /\ net[1].contacts # <<>>
    /\ net[1].aircraft = net[2].aircraft
    /\ lastRun.h = 2 /\ lastRun.outcome = "ready"
    /\ lastRun.contacts = "ok" /\ lastRun.cdata = "empty" /\ lastRun.data = "sparse"
    /\ dom.otherContacts = <<kv(OtherLabel, Str("No contacts found"))>>

(* C10.  Whenever the results are shown, each of the five cards of the     *)
(* primary payload holds its full label set, every label with a value.     *)
C10_ShownViewIsComplete ==
    ResultsShown(dom) =>
        /\ Complete(dom.fr24Card, Fr24Labels)
        /\ Complete(dom.regCard, RegLabels)
        /\ Complete(dom.adsbCard, AdsbLabels)
        /\ Complete(dom.targetCard, TargetLabels)
        /\ Complete(dom.activityCard, ActivityLabels)

\* The page the run recorded in r leaves when it is the only run the page
\* has seen: lines 77-95 for a blank query, the outer catch from wherever the
\* rendering got to for a failed one, RunView for a ready one.
SoloView(r) ==
    LET d0 == showSpinner(ResetView(InitDom), TRUE)
    IN  CASE r.outcome = "invalid" -> showSpinner(setError(d0, EnterMsg), FALSE)
          [] r.outcome = "failed" /\ r.data = "none" -> catchAndFinally(d0, r.err)
          [] r.outcome = "failed" ->
                catchAndFinally(renderPrimary(d0, PrimaryPayload(r.data), r.at), r.err)
          [] r.outcome = "ready" -> RunView(r.data, r.at, r.contacts, r.cdata)
          [] OTHER -> InitDom

\* Two runs had the same query, the same upstream answers and the same clock.
SameInputs(a, b) == [a EXCEPT !.h = 0] = [b EXCEPT !.h = 0]

(* C11.  With one query at a time, a second run of the same query, with the *)
(* same upstream answers and the same clock as the first, ends with the     *)
(* view the first run ended with: sections, flight rows, contacts blocks,   *)
(* results visibility and error box; nothing of the first run is left in    *)
(* it.  The first run ends with the view SoloView gives for its inputs, and *)
(* so does the second when its inputs are those of the first.               *)
C11_RepeatedLookupIdempotent ==
    /\ [](Quiescent /\ lastRun.h = 1 => View(dom) = View(SoloView(lastRun)))
    /\ [][(lastRun.h = 1 /\ lastRun'.h = 2 /\ SameInputs(lastRun, lastRun')) =>
                View(dom') = View(SoloView(lastRun))]_vars

\* The second of two runs of one query has ended ready, with flight rows and
\* contacts on the page, after the first had ended ready too.
C11_Witness ==
    /\ Quiescent
    /\ handlers[1].pc = "ready" /\ handlers[2].pc = "ready"
    /\ net[1] = net[2] /\ net[2].contacts # <<>>
    /\ lastRun.h = 2 /\ lastRun.data = "full" /\ lastRun.contacts = "ok"
    /\ lastRun.cdata = "full"
    /\ dom = SoloView(lastRun)
    /\ dom.flightsTable # <<>>

\* The value a card shows under a label.
ValueOf(card, label) == card[CHOOSE i \in 1..Len(card) : card[i].label = label].value

\* A candidate that is not null, not undefined and not the empty string.
IsPresent(v) == ~IsNullish(v) /\ v # Str("")

\* The first present candidate as text, the sentinel when there is none.
FirstPresent(cands) ==
    LET present == SelectSeq(cands, IsPresent)
    IN  IF present = <<>> THEN Sentinel ELSE ToStr(present[1])

\* The first query of the page has ended ready on a body of the family.
ReadyOn(kind) == lastRun.outcome = "ready" /\ Get(lastRun.data, "kind") = Str(kind)

(* C12.  Every field shown through the field fallback (the value fallback  *)
(* of kv, and the || chains before it) shows the first of its candidates    *)
(* that is not null, not undefined and not the empty string, and the        *)
(* sentinel when there is none: 0 and false are shown as values.            *)
C12_FallbackKeepsZeroAndFalse ==
    ReadyOn("kv") =>
        LET data == lastRun.data
            fr == Get(data, "fr24")
            rg == Get(data, "registry")
            ad == Get(data, "adsb")
        IN  /\ ValueOf(dom.fr24Card, "Aircraft") = FirstPresent(<<Get(fr, "model")>>)
            /\ ValueOf(dom.fr24Card, "Mode S (ICAO hex)") = FirstPresent(<<Get(fr, "mode_s")>>)
            /\ ValueOf(dom.regCard, "Owner") = FirstPresent(<<Get(rg, "owner")>>)
            /\ ValueOf(dom.regCard, "Model Year") = FirstPresent(<<Get(rg, "model_year")>>)
            /\ ValueOf(dom.regCard, "Seats") = FirstPresent(<<Get(rg, "seats")>>)
            /\ ValueOf(dom.regCard, "Engines") = FirstPresent(<<Get(rg, "engines_count")>>)
            /\ ValueOf(dom.adsbCard, "Registration") =
                   FirstPresent(<<Get(ad, "registration"), Get(data, "tail_number")>>)
            /\ ValueOf(dom.adsbCard, "On-ground / Altitude") =
                   FirstPresent(<<Get(ad, "baro_altitude")>>)
            /\ ValueOf(dom.adsbCard, "Squawk") = FirstPresent(<<Get(ad, "squawk")>>)

\* A count of a unit with " ago": "s" after the unit for a count above 1.
AgoText(k, unit) == IntToStr(k) \o " " \o unit \o (IF k > 1 THEN "s" ELSE "") \o " ago"

\* The text for an epoch, in whole seconds, seen at nowSec: the elapsed time
\* is never below 0, and the unit is the largest of which it holds one.
ExpectedAgo(nowSec, epoch) ==
    LET elapsed == IF nowSec - epoch > 0 THEN nowSec - epoch ELSE 0
    IN  IF elapsed >= 86400 THEN AgoText(elapsed \div 86400, "day")
        ELSE IF elapsed >= 3600 THEN AgoText(elapsed \div 3600, "hr")
        ELSE IF elapsed >= 60 THEN AgoText(elapsed \div 60, "min")
        ELSE AgoText(elapsed, "sec")

\* The texts the thresholds give.
AgoExamples ==
    {<<0, "0 sec ago">>, <<1, "1 sec ago">>, <<59, "59 secs ago">>, <<60, "1 min ago">>,
     <<119, "1 min ago">>, <<120, "2 mins ago">>, <<3600, "1 hr ago">>,
     <<7200, "2 hrs ago">>, <<86400, "1 day ago">>, <<172800, "2 days ago">>}

(* C13.  formatAgo over whole seconds: an absent or zero epoch gives the    *)
(* sentinel; otherwise the elapsed time is max(0, now - epoch), never       *)
(* negative even for an epoch in the future, and the text is the count of   *)
(* the largest unit among days, hours, minutes and seconds that the elapsed *)
(* time holds at least one of (seconds when none), with "s" after the unit  *)
(* exactly when the count is above 1: 59 s is "59 secs ago", 60 s "1 min    *)
(* ago", 3600 s "1 hr ago", 86400 s "1 day ago".  Read off the two fields   *)
(* the handler shows it in.                                                 *)
C13_FormatAgo ==
    /\ \A e \in {Undefined, Null, Num(0)} : formatAgo(clock, e) = Sentinel
    /\ ReadyOn("ago") =>
        LET e == Get(Get(lastRun.data, "last_spotted"), "epoch")
            nowSec == lastRun.at \div 1000
            seen == ValueOf(dom.adsbCard, "Last seen (ADS-B)")
            spotted == ValueOf(dom.activityCard, "Last spotted (overall)")
        IN  IF e \in {Undefined, Null, Num(0)}
            THEN seen = Sentinel /\ spotted = Sentinel
            ELSE /\ seen = ExpectedAgo(nowSec, e.n) \o " (epoch)"
                 /\ spotted = ExpectedAgo(nowSec, e.n) \o " at TEB"
                 /\ \A x \in AgoExamples :
                        nowSec - e.n = x[1] => seen = x[2] \o " (epoch)"

\* A body whose epoch lies in the future has been rendered, and one whose
\* epoch lies a day back.
C13_Witness ==
    /\ ReadyOn("ago")
    /\ Get(Get(lastRun.data, "last_spotted"), "epoch") \in {Num(200005), Num(200000 - 86400)}
    /\ ValueOf(dom.activityCard, "Last spotted (overall)") \in
            {"0 sec ago at TEB", "1 day ago at TEB"}

(* C14.  When a run reaches ready, the flights table holds exactly the     *)
(* rows of that run's recent_flights, in the order of the body, and no row  *)
(* of another query; also when two queries are in flight at once and both   *)
(* primary responses succeed.                                               *)
C14_FlightRowsOfThisQuery ==
    [][\A h \in Ids :
          (handlers[h].pc # "ready" /\ handlers'[h].pc = "ready") =>
              dom'.flightsTable = flightRowsOf(PrimaryPayload(lastRun'.data))]_vars

\* A group of the contacts body: absent, or its entries.
GroupOf(cdata, key) == Get(Or(Get(cdata, "contacts"), EmptyObj), key)

\* The container shows the group: "No contacts found" under the label for
\* an absent or empty group, else the label and one entry per contact, in
\* the order of the body.
ShowsGroup(shown, label, list) ==
    /\ shown # <<>>
    /\ IF IsNullish(list) \/ list = EmptyArr \/ ~Truthy(list)
       THEN shown = <<[label |-> label, value |-> "No contacts found"]>>
       ELSE /\ shown[1] = [header |-> label]
            /\ Len(shown) = Len(list.items) + 1
            /\ \A i \in 1..Len(list.items) :
                  shown[i + 1].name = FirstPresent(<<Get(list.items[i], "name")>>)

(* C15.  When a run reaches ready after a contacts answer that was ok and  *)
(* was rendered, none of the three contact groups (DOM, OCC, other) is      *)
(* blank: a group with entries shows them in the order of the body, an      *)
(* empty or absent group shows "No contacts found".                         *)
C15_ContactGroupsNeverBlank ==
    [][\A h \in Ids :
          (handlers[h].pc # "ready" /\ handlers'[h].pc = "ready"
              /\ lastRun'.contacts = "ok") =>
              LET cdata == ContactsPayload(lastRun'.cdata)
              IN  /\ ShowsGroup(dom'.domContacts, DomLabel, GroupOf(cdata, "dom"))
                  /\ ShowsGroup(dom'.occContacts, OccLabel, GroupOf(cdata, "occ"))
                  /\ ShowsGroup(dom'.otherContacts, OtherLabel, GroupOf(cdata, "other"))]_vars

\* A run has ended on a contacts body with two groups of entries and one
\* empty group.
C15_Witness ==
    /\ lastRun.outcome = "ready" /\ lastRun.contacts = "ok" /\ lastRun.cdata = "full"
    /\ Len(dom.domContacts) = 3 /\ dom.domContacts[2].name = "Ann"
    /\ Len(dom.occContacts) = 2
    /\ dom.otherContacts = <<kv(OtherLabel, Str("No contacts found"))>>

\* registry.fractional_owner of a body; undefined without a registry record.
OwnerFlag(data) == Get(Get(data, "registry"), "fractional_owner")

(* C16.  The fractional-owner field maps three ways: true shows "YES",     *)
(* false shows "NO", an absent value or a missing registry record shows the *)
(* sentinel; false never shows the sentinel and absence never shows "NO".   *)
C16_FractionalOwnerThreeWay ==
    ReadyOn("owner") =>
        LET v == OwnerFlag(lastRun.data)
            shown == ValueOf(dom.regCard, "Fractional Owner")
        IN  /\ v = Bool(TRUE) => shown = "YES"
            /\ v = Bool(FALSE) => shown = "NO"
            /\ IsNullish(v) => shown = Sentinel
            /\ shown = "YES" => v = Bool(TRUE)
            /\ shown = "NO" => v = Bool(FALSE)
            /\ shown \in {"YES", "NO", Sentinel}

\* A body whose flag is false has been rendered as "NO".
C16_Witness ==
    /\ ReadyOn("owner")
    /\ OwnerFlag(lastRun.data) = Bool(FALSE)
    /\ ValueOf(dom.regCard, "Fractional Owner") = "NO"

\* The confidences of the bodies with their percentages, rounded.
Percents ==
    {<<Num(0), "0">>, <<Num(1), "100">>, <<Frac(87, 100), "87">>, <<Frac(1, 2), "50">>,
     <<Frac(7, 8), "88">>}

(* C17.  The likely-operating-base field shows the base code followed by   *)
(* " (conf P%)", P the confidence times 100 rounded to an integer, exactly  *)
(* when the confidence is a number (0.87 and TEB: "TEB (conf 87%)"); the    *)
(* code alone when the confidence is absent; the sentinel when the code is  *)
(* absent.                                                                  *)
C17_LikelyBaseConfidence ==
    ReadyOn("base") =>
        LET base == Get(lastRun.data, "likely_base")
            code == Get(base, "code")
            conf == Get(base, "confidence")
            shown == ValueOf(dom.targetCard, "Likely operating base")
        IN  IF ~IsPresent(code) THEN shown = Sentinel
            ELSE IF conf.t = "number"
            THEN \E x \in Percents :
                    x[1] = conf /\ shown = ToStr(code) \o " (conf " \o x[2] \o "%)"
            ELSE shown = ToStr(code)

\* The body {code: "TEB", confidence: 0.87} has been rendered.
C17_Witness ==
    /\ ReadyOn("base")
    /\ Get(lastRun.data, "likely_base") = Obj([code |-> Str("TEB"), confidence |-> Frac(87, 100)])
    /\ ValueOf(dom.targetCard, "Likely operating base") = "TEB (conf 87%)"

\* The run h has returned.
HasReturned(h) == handlers[h].pc \in {"invalid", "failed", "ready"}

\* The step in which the run h returns by way pc.
ReturnsBy(h, pc) == handlers[h].pc # pc /\ handlers'[h].pc = pc

(* C18.  Given that every request issued settles, every submitted query    *)
(* returns from its handler, in exactly one of three ways that it keeps:    *)
(* rejected by the validation, with the validation message shown; failed,   *)
(* with the generic error shown; ready, with the results made visible.  No  *)
(* run stays suspended for ever.                                            *)
C18_EverySubmitReturns ==
    /\ \A h \in Ids : (h \in Submitted) ~> HasReturned(h)
    /\ [][\A h \in Ids :
            /\ HasReturned(h) => handlers'[h] = handlers[h]
            /\ ReturnsBy(h, "invalid") =>
                    ErrorShown(dom') /\ dom'.errText = EnterMsg /\ ~ResultsShown(dom')
            /\ ReturnsBy(h, "failed") => ErrorShown(dom') /\ dom'.errText = LookupFailedMsg
            /\ ReturnsBy(h, "ready") => ResultsShown(dom')]_vars

\* Both queries have returned, one failed and one ready, after both were in
\* flight at once.
C18_Witness ==
    /\ handlers[1].pc = "failed" /\ handlers[2].pc = "ready"
    /\ net[2].contacts # <<>>
    /\ lastRun.h = 2

(* C19.  In every state in which no run is in flight (every submitted     *)
(* query has returned: rejected by the validation, failed or ready) the     *)
(* busy indicator is hidden, whatever the order of submits and responses.   *)
C19_IdleMeansNotBusy ==
    (Quiescent /\ Submitted # {}) => dom.spinner = "none"

\* Two overlapping queries have both returned, the later one first and
\* failed, and the indicator is hidden.
C19_Witness ==
    /\ Quiescent
    /\ handlers[1].pc = "ready" /\ handlers[2].pc = "failed"
    /\ lastRun.h = 1
    /\ dom.spinner = "none"

===========================================================================
